---- MODULE Spec2Model ----
(***************************************************************************)
(* Model of the exam client: the proctoring hook (useProctoring) and the   *)
(* exam session controller (ExamScreen).                                   *)
(*                                                                         *)
(* Both are React function components.  A callback handed to setTimeout,   *)
(* setInterval or an effect cleanup keeps the values of the render in      *)
(* which it was created; such captured values are modelled explicitly as   *)
(* an "env" record stored with the timer.  Refs (useRef) are live.         *)
(* One action is one event handler with the re-render and the effects      *)
(* that its state updates trigger.                                         *)
(***************************************************************************)
EXTENDS Integers, Sequences, FiniteSets, TLC

\* ------------------------------------------------------------------ bounds
MaxCycles == 2
MaxTimers == 2
MaxTime == 2
MaxCountdown == 1
MaxEdits == 2
MaxSubmits == 2

\* The question ids of the exam that is loaded.
QuestionIds == <<1, 2>>

\* ------------------------------------------------------------- variables
VARIABLES
  \* ---- screen lifecycle and loaded data (ExamScreen)
  mounted,            \* the exam screen is mounted
  attempt,            \* [loaded, proctoring_enabled, time_remaining]
  questions,          \* sequence of question ids, <<>> until loaded
  questionsData,      \* the results list getExamQuestions returns
  \* ---- useProctoring state (useState)
  snapshotCount,
  lastSnapshotTime,
  isTakingSnapshot,
  violationCount,
  appState,
  cameraReady,
  hasPermission,
  violationModal,
  \* ---- useProctoring refs and scheduled callbacks
  snapshotIntervalRef, \* 0 (null) or the id of the interval it holds
  cameraRef,           \* cameraRef.current is set
  timers,              \* live proctoring timers: [id, kind, env]
  permissionPending,   \* Camera.requestCameraPermission() not yet resolved
  cycles,              \* takeAndUploadSnapshot calls suspended at an await
  \* ---- observations of the proctoring path
  cycleSeq,            \* number of cycles that passed the entry guards
  permissionRequests,  \* number of Camera.requestCameraPermission() calls
  takePhotoCalls,      \* number of cameraRef.current.takePhoto() calls
  uploadCalls,         \* number of takeProctoringSnapshot() calls
  lastClean,           \* the last response returned was a clean one
  lastShows,           \* times that upload's return set the modal
  newestDoneSeq,       \* the latest-issued upload that has returned
  resumed,             \* the live interval was armed by a return to foreground
  disqualifiedSeen,    \* some returned response had auto_disqualified
  \* ---- ExamScreen state (useState)
  timeRemaining,
  currentQuestionIndex, \* 0-based, as in the source
  userAnswers,          \* function: question id -> UserAnswer
  showSubmitModal,
  submitting,
  autoSaving,
  questionStartTime,
  \* ---- ExamScreen refs and scheduled callbacks
  autoSaveTimeoutRef,   \* 0 (null) or the id of the timeout it holds
  saveTimers,           \* live debounce timeouts, with their arguments
  savesInFlight,        \* submitAnswer calls awaiting the network
  countdown,            \* the countdown interval and the env it captured
  timeEffect,           \* the time-tracking effect's cleanup and its env
  submitsInFlight,      \* submitExam calls awaiting the network
  \* ---- observations of the exam session
  now,                  \* the clock, in ticks of 500 ms
  dwellMs,              \* per question: milliseconds it has been current
  saveCallCount,        \* number of submitAnswer calls made
  lastSaveCall,         \* the arguments of the last one
  savedAnswers,         \* per question, the answer of the last save call for it
  editCount,            \* number of autoSaveAnswer calls made
  burst,                \* the current run of edits inside the debounce window
  submitCallCount,      \* number of submitExamApi calls made
  lastSubmit,           \* the last one: its payload, the answers in memory
  userPressedSubmit     \* the user pressed the submit button at least once

proctorVars ==
  <<snapshotCount, lastSnapshotTime, isTakingSnapshot, violationCount, appState,
    cameraReady, hasPermission, violationModal, snapshotIntervalRef, cameraRef,
    timers, permissionPending, cycles, cycleSeq, permissionRequests,
    takePhotoCalls, uploadCalls, lastClean, lastShows, newestDoneSeq,
    resumed, disqualifiedSeen>>

examVars ==
  <<timeRemaining, currentQuestionIndex, userAnswers, showSubmitModal, submitting,
    autoSaving, questionStartTime, autoSaveTimeoutRef, saveTimers, savesInFlight,
    countdown, timeEffect, submitsInFlight, now, dwellMs, saveCallCount,
    lastSaveCall, savedAnswers, burst, editCount, submitCallCount, lastSubmit,
    userPressedSubmit>>

sharedVars == <<mounted, attempt, questions, questionsData>>

vars == <<sharedVars, proctorVars, examVars>>

\* ------------------------------------------------------- proctoring data

\* The violation types the server is drawn to report: known ones and one
\* that getViolationDetails has no case for.
ViolationLists ==
  {<<>>,
   <<[type |-> "no_face"]>>,
   <<[type |-> "phone_detected"]>>,
   <<[type |-> "looking_away"], [type |-> "no_face"]>>}

\* The cumulative counts the server is drawn to report.
ViolationCounts == {0, 1}

Responses ==
  [violations : ViolationLists,
   violation_count : ViolationCounts,
   auto_disqualified : BOOLEAN]

InitialModal ==
  [visible |-> FALSE, violationType |-> "", violationTitle |-> "",
   totalViolations |-> 0, isDisqualified |-> FALSE]

\* getViolationDetails: a switch with no default; any other type falls
\* through and the function returns undefined.
GetViolationDetails(violationType) ==
  CASE violationType = "no_face" ->
         [defined |-> TRUE, title |-> "Face Not Detected"]
    [] violationType = "multiple_faces" ->
         [defined |-> TRUE, title |-> "Multiple Faces Detected"]
    [] violationType = "looking_away" ->
         [defined |-> TRUE, title |-> "Looking Away Detected"]
    [] violationType = "suspicious_gaze" ->
         [defined |-> TRUE, title |-> "Suspicious Eye Movement"]
    [] violationType = "head_pose_violation" ->
         [defined |-> TRUE, title |-> "Unusual Head Position"]
    [] OTHER -> [defined |-> FALSE, title |-> ""]

\* A mutant of ShowViolationModal: every notice is a disqualification.
ShowViolationModalDisqualifies(modal, violationType, totalViolations, isDisqualified) ==
  LET details == GetViolationDetails(violationType)
  IN  IF details.defined
      THEN [threw |-> FALSE,
            modal |-> [visible |-> TRUE, violationType |-> violationType,
                       violationTitle |-> details.title,
                       totalViolations |-> totalViolations,
                       isDisqualified |-> TRUE]]
      ELSE [threw |-> TRUE, modal |-> modal]

\* showViolationModal: reads details.title, which throws a TypeError when
\* details is undefined; otherwise overwrites the single modal slot.
ShowViolationModal(modal, violationType, totalViolations, isDisqualified) ==
  LET details == GetViolationDetails(violationType)
  IN  IF details.defined
      THEN [threw |-> FALSE,
            modal |-> [visible |-> TRUE, violationType |-> violationType,
                       violationTitle |-> details.title,
                       totalViolations |-> totalViolations,
                       isDisqualified |-> isDisqualified]]
      ELSE [threw |-> TRUE, modal |-> modal]

\* closeViolationModal
CloseModal(modal) == [modal EXCEPT !.visible = FALSE]

\* A mutant of ModalAfterResponse: a response without violations hides the modal.
ModalAfterResponseHiding(modal, response) ==
  IF response.violations /= <<>>
  THEN LET s == ShowViolationModal(modal, Head(response.violations).type,
                                   response.violation_count, FALSE)
       IN  [threw |-> s.threw, modal |-> s.modal,
            shows |-> IF s.threw THEN 0 ELSE 1]
  ELSE [threw |-> FALSE, modal |-> CloseModal(modal), shows |-> 0]

\* takeAndUploadSnapshot after the counters are set: the modal part.
\* Returns the modal, whether an exception left the try block, and how many
\* times this cycle set the modal.
ModalAfterResponse(modal, response) ==
  LET first ==
        IF response.violations /= <<>>
        THEN LET s == ShowViolationModal(modal, Head(response.violations).type,
                                         response.violation_count, FALSE)
             IN  [threw |-> s.threw, modal |-> s.modal,
                  shows |-> IF s.threw THEN 0 ELSE 1]
        ELSE [threw |-> FALSE, modal |-> modal, shows |-> 0]
  IN  IF first.threw \/ ~response.auto_disqualified
      THEN first
      ELSE LET s == ShowViolationModal(first.modal, "disqualified",
                                       response.violation_count, TRUE)
           IN  [threw |-> s.threw, modal |-> s.modal,
                shows |-> IF s.threw THEN first.shows ELSE first.shows + 1]

\* ---------------------------------------------- proctoring timers, effects

\* The values of the current render that a callback created now captures.
RenderEnv ==
  [isTakingSnapshot |-> isTakingSnapshot, cameraReady |-> cameraReady,
   hasPermission |-> hasPermission, appState |-> appState]

FreshId(used) == CHOOSE i \in 1..(Cardinality(used) + 1) : i \notin used

TimerIds(ts) == {t.id : t \in ts}

\* A mutant of StopProctoring: the ref is reset but the interval is not
\* cleared.
StopProctoringKeepsInterval(tr) ==
  IF tr.ref /= 0
  THEN [timers |-> tr.timers, ref |-> 0]
  ELSE tr

\* stopProctoring, on the pair [timers, ref]
StopProctoring(tr) ==
  IF tr.ref /= 0
  THEN [timers |-> {t \in tr.timers : t.id /= tr.ref}, ref |-> 0]
  ELSE tr

\* startProctoring called in a render with values env
StartProctoring(tr, enabled, env) ==
  IF ~enabled THEN tr
  ELSE IF ~env.cameraReady \/ ~env.hasPermission THEN tr
  ELSE LET kept == IF tr.ref /= 0
                   THEN {t \in tr.timers : t.id /= tr.ref}
                   ELSE tr.timers
           w == FreshId(TimerIds(kept))
           i == FreshId(TimerIds(kept) \cup {w})
       IN  [timers |-> kept \cup {[id |-> w, kind |-> "warmup", env |-> env],
                                  [id |-> i, kind |-> "interval", env |-> env]},
            ref |-> i]

\* A mutant of StartEffect: the effect arms as soon as proctoring is enabled.
StartEffectEnabledOnly(tr, enabled, env) ==
  LET cleaned == StopProctoring(tr)
  IN  IF enabled
      THEN StartProctoring(cleaned, enabled,
                           [env EXCEPT !.cameraReady = TRUE,
                                       !.hasPermission = TRUE])
      ELSE cleaned

\* The effect on [attemptId, isProctoringEnabled, cameraReady, hasPermission],
\* re-run: the previous run's cleanup, then the body.
StartEffect(tr, enabled, env) ==
  LET cleaned == StopProctoring(tr)
  IN  IF enabled /\ env.cameraReady /\ env.hasPermission
      THEN StartProctoring(cleaned, enabled, env)
      ELSE cleaned

\* A mutant of AppStateEffect: going to the background pauses nothing.
AppStateEffectNoPause(tr, enabled, env) ==
  IF env.appState = "active" /\ enabled /\ env.cameraReady
     /\ env.hasPermission /\ tr.ref = 0
  THEN StartProctoring(tr, enabled, env)
  ELSE tr

\* The effect on [appState]
AppStateEffect(tr, enabled, env) ==
  IF env.appState /= "active" /\ tr.ref /= 0
  THEN StopProctoring(tr)
  ELSE IF env.appState = "active" /\ enabled /\ env.cameraReady
          /\ env.hasPermission /\ tr.ref = 0
       THEN StartProctoring(tr, enabled, env)
       ELSE tr

\* The hook's second argument: attempt?.proctoring_enabled || false
IsProctoringEnabled == attempt.loaded /\ attempt.proctoring_enabled


\* ------------------------------------------------------------ initial state

NoAttempt == [loaded |-> FALSE, proctoring_enabled |-> FALSE, time_remaining |-> 0]

NoEnv == [live |-> FALSE, questions |-> <<>>, currentQuestionIndex |-> 0,
          userAnswers |-> <<>>, questionStartTime |-> 0]

NoTimeEffect == [live |-> FALSE, questionId |-> 0, questionStartTime |-> 0]

\* No submitExam call has been made yet.
NoSubmit == [payload |-> <<>>, memory |-> <<>>]

NoBurst == [n |-> 0, questionId |-> 0, answer |-> "", isFlagged |-> FALSE,
            callsAtStart |-> 0, closed |-> FALSE]

\* ------------------------------------------------------ the question list

\* A field the server left out or sent as null, and a field with a value.
NoValue == [kind |-> "null", v |-> 0]

Value(v) == [kind |-> "value", v |-> v]

\* x || d on a number field and on a string field: null, 0 and "" are falsy.
NumberOr(x, d) == IF x.kind = "value" /\ x.v /= 0 THEN x.v ELSE d

StringOr(x, d) == IF x.kind = "value" /\ x.v /= "" THEN x.v ELSE d

\* String.prototype.toLowerCase on the subjects drawn.
ToLowerCase(s) ==
  CASE s = "General" -> "general"
    [] s = "Maths" -> "maths"
    [] OTHER -> s

\* The lower-cased subjects in collation order.
SubjectOrder == <<"general", "maths">>

\* String.prototype.localeCompare on them: negative, zero or positive.
LocaleCompare(x, y) ==
  LET rank(s) == CHOOSE i \in DOMAIN SubjectOrder : SubjectOrder[i] = s
  IN  IF rank(x) < rank(y) THEN -1 ELSE IF rank(x) > rank(y) THEN 1 ELSE 0

\* The comparator loadExamData passes to sort.
CompareQuestions(a, b) ==
  LET subA == ToLowerCase(StringOr(a.subject, "General"))
      subB == ToLowerCase(StringOr(b.subject, "General"))
      numA == NumberOr(a.question_number,
                       NumberOr(a.question_number_in_pattern, 0))
      numB == NumberOr(b.question_number,
                       NumberOr(b.question_number_in_pattern, 0))
  IN  IF subA /= subB THEN LocaleCompare(subA, subB)
      ELSE IF a.pattern_section_id /= b.pattern_section_id
           THEN NumberOr(a.pattern_section_id, 0)
                - NumberOr(b.pattern_section_id, 0)
           ELSE numA - numB

\* Array.prototype.sort is stable: an element goes behind every element
\* already placed that does not compare greater.
RECURSIVE InsertQuestion(_, _)
InsertQuestion(x, sorted) ==
  IF sorted = <<>> THEN <<x>>
  ELSE IF CompareQuestions(x, Head(sorted)) < 0 THEN <<x>> \o sorted
       ELSE <<Head(sorted)>> \o InsertQuestion(x, Tail(sorted))

RECURSIVE SortQuestions(_)
SortQuestions(list) ==
  IF list = <<>> THEN <<>>
  ELSE InsertQuestion(list[Len(list)],
                      SortQuestions(SubSeq(list, 1, Len(list) - 1)))

QuestionIdsOf(list) == [i \in DOMAIN list |-> list[i].id]

\* The results of the exam the screen loads in the other specifications:
\* the server lists question 2 first.
ExamQuestions ==
  <<[id |-> QuestionIds[2], subject |-> Value("Maths"),
     pattern_section_id |-> Value(1), question_number |-> Value(2),
     question_number_in_pattern |-> NoValue],
    [id |-> QuestionIds[1], subject |-> Value("Maths"),
     pattern_section_id |-> Value(1), question_number |-> Value(1),
     question_number_in_pattern |-> NoValue]>>

\* The fields a question of the result list is drawn with.
QuestionFields ==
  [subject : {NoValue, Value("Maths")},
   pattern_section_id : {NoValue, Value(1)},
   question_number : {NoValue, Value(1), Value(2)},
   question_number_in_pattern : {NoValue, Value(1)}]

WithId(fields, id) ==
  [id |-> id, subject |-> fields.subject,
   pattern_section_id |-> fields.pattern_section_id,
   question_number |-> fields.question_number,
   question_number_in_pattern |-> fields.question_number_in_pattern]

\* The result lists drawn: two or three questions, numbered in the order
\* the server lists them.
QuestionLists ==
  {<<WithId(f, 1), WithId(g, 2)>> : f \in QuestionFields, g \in QuestionFields}
  \cup {<<WithId(f[1], 1), WithId(f[2], 2), WithId(f[3], 3)>> :
          f \in [{1, 2, 3} -> QuestionFields]}

\* The state after construction, the violation modal and the server's
\* result list aside.
InitScreen ==
  /\ mounted = TRUE
  /\ attempt = NoAttempt
  /\ questions = <<>>
  /\ snapshotCount = 0
  /\ lastSnapshotTime = -1
  /\ isTakingSnapshot = FALSE
  /\ violationCount = 0
  /\ appState = "active"
  /\ cameraReady = FALSE
  /\ hasPermission = FALSE
  /\ snapshotIntervalRef = 0
  /\ cameraRef = FALSE
  /\ timers = {}
  /\ permissionPending = FALSE
  /\ cycles = {}
  /\ cycleSeq = 0
  /\ permissionRequests = 0
  /\ takePhotoCalls = 0
  /\ uploadCalls = 0
  /\ lastClean = FALSE
  /\ lastShows = 0
  /\ newestDoneSeq = 0
  /\ resumed = FALSE
  /\ disqualifiedSeen = FALSE
  /\ timeRemaining = 0
  /\ currentQuestionIndex = 0
  /\ userAnswers = <<>>
  /\ showSubmitModal = FALSE
  /\ submitting = FALSE
  /\ autoSaving = FALSE
  /\ questionStartTime = 0
  /\ autoSaveTimeoutRef = 0
  /\ saveTimers = {}
  /\ savesInFlight = 0
  /\ countdown = NoEnv
  /\ timeEffect = NoTimeEffect
  /\ submitsInFlight = 0
  /\ now = 0
  /\ dwellMs = [q \in {QuestionIds[i] : i \in DOMAIN QuestionIds} |-> 0]
  /\ saveCallCount = 0
  /\ lastSaveCall = [questionId |-> 0, answer |-> "", isFlagged |-> FALSE]
  /\ savedAnswers = <<>>
  /\ editCount = 0
  /\ burst = NoBurst
  /\ submitCallCount = 0
  /\ lastSubmit = [auto |-> FALSE, payload |-> <<>>, memory |-> <<>>,
                   closed |-> <<>>, outcome |-> "none", retry |-> FALSE,
                   previous |-> NoSubmit]
  /\ userPressedSubmit = FALSE

\* ------------------------------------------------------- shared operations

\* A mutant of ShouldRequestPermission: the early return is missing.
ShouldRequestPermissionAlways(enabled) == TRUE

Init ==
  /\ violationModal = InitialModal
  /\ questionsData = ExamQuestions
  /\ InitScreen

\* The requestPermission effect asks the platform only when proctoring is on.
ShouldRequestPermission(enabled) == enabled

\* The Camera element is rendered, and ExamScreen's effect hands its ref to
\* the hook, only for a proctored attempt on the loaded exam screen.
CameraRendered == IsProctoringEnabled /\ questions /= <<>>

\* loadExamData up to setAttempt, with the render and effects that follow:
\* the hook's requestPermission effect and start effect, the countdown effect.
LoadAttempt(enabled, remaining) ==
  /\ mounted
  /\ ~attempt.loaded
  /\ attempt' = [loaded |-> TRUE, proctoring_enabled |-> enabled,
                 time_remaining |-> remaining]
  /\ IF ShouldRequestPermission(enabled)
     THEN /\ permissionPending' = TRUE
          /\ permissionRequests' = permissionRequests + 1
     ELSE UNCHANGED <<permissionPending, permissionRequests>>
  /\ LET tr == IF enabled
               THEN StartEffect([timers |-> timers, ref |-> snapshotIntervalRef],
                                enabled, RenderEnv)
               ELSE [timers |-> timers, ref |-> snapshotIntervalRef]
     IN  /\ timers' = tr.timers
         /\ snapshotIntervalRef' = tr.ref
  /\ IF remaining /= 0
     THEN /\ timeRemaining' = remaining
          /\ countdown' = [live |-> TRUE, questions |-> questions,
                           currentQuestionIndex |-> currentQuestionIndex,
                           userAnswers |-> userAnswers,
                           questionStartTime |-> questionStartTime]
     ELSE UNCHANGED <<timeRemaining, countdown>>
  /\ UNCHANGED <<mounted, questions, questionsData, snapshotCount,
                 lastSnapshotTime,
                 isTakingSnapshot, violationCount, appState, cameraReady,
                 hasPermission, violationModal, cameraRef, cycles, cycleSeq,
                 takePhotoCalls, uploadCalls, lastClean, lastShows,
                 newestDoneSeq, resumed, disqualifiedSeen,
                 currentQuestionIndex, userAnswers,
                 showSubmitModal, submitting, autoSaving, questionStartTime,
                 autoSaveTimeoutRef, saveTimers, savesInFlight, timeEffect,
                 submitsInFlight, now, dwellMs, saveCallCount, lastSaveCall, savedAnswers,
                 burst, editCount, submitCallCount, lastSubmit,
                 userPressedSubmit>>

\* loadExamData from setQuestions on, with the time-tracking effect that the
\* change of questions triggers.
LoadQuestions ==
  /\ mounted
  /\ attempt.loaded
  /\ questions = <<>>
  /\ questions' = QuestionIdsOf(SortQuestions(questionsData))
  /\ timeEffect' = [live |-> TRUE,
                    questionId |-> questions'[currentQuestionIndex + 1],
                    questionStartTime |-> questionStartTime]
  /\ questionStartTime' = now
  /\ UNCHANGED <<mounted, attempt, questionsData, proctorVars, timeRemaining,
                 currentQuestionIndex, userAnswers, showSubmitModal,
                 submitting, autoSaving, autoSaveTimeoutRef, saveTimers,
                 savesInFlight, countdown, submitsInFlight, now, dwellMs,
                 saveCallCount, lastSaveCall, savedAnswers, burst, editCount,
                 submitCallCount, lastSubmit, userPressedSubmit>>

\* A mutant of Unmount: the cleanup leaves the debounce timeout armed.
UnmountKeepsDebounce ==
  /\ mounted
  /\ mounted' = FALSE
  /\ LET tr == StopProctoring([timers |-> timers, ref |-> snapshotIntervalRef])
     IN  /\ timers' = tr.timers
         /\ snapshotIntervalRef' = tr.ref
  /\ saveTimers' = saveTimers
  /\ countdown' = [countdown EXCEPT !.live = FALSE]
  /\ timeEffect' = [timeEffect EXCEPT !.live = FALSE]
  /\ UNCHANGED <<attempt, questions, questionsData, snapshotCount,
                 lastSnapshotTime,
                 isTakingSnapshot, violationCount, appState, cameraReady,
                 hasPermission, violationModal, cameraRef, permissionPending,
                 cycles, cycleSeq, permissionRequests, takePhotoCalls,
                 uploadCalls, lastClean, lastShows, newestDoneSeq,
                 resumed, disqualifiedSeen,
                 timeRemaining, currentQuestionIndex, userAnswers,
                 showSubmitModal, submitting, autoSaving, questionStartTime,
                 autoSaveTimeoutRef, savesInFlight, submitsInFlight, now,
                 dwellMs, saveCallCount, lastSaveCall, savedAnswers, burst, editCount,
                 submitCallCount, lastSubmit, userPressedSubmit>>

\* Leaving the exam screen: every effect's cleanup runs.
Unmount ==
  /\ mounted
  /\ mounted' = FALSE
  /\ LET tr == StopProctoring([timers |-> timers, ref |-> snapshotIntervalRef])
     IN  /\ timers' = tr.timers
         /\ snapshotIntervalRef' = tr.ref
  /\ saveTimers' = {t \in saveTimers : t.id /= autoSaveTimeoutRef}
  /\ countdown' = [countdown EXCEPT !.live = FALSE]
  /\ timeEffect' = [timeEffect EXCEPT !.live = FALSE]
  /\ UNCHANGED <<attempt, questions, questionsData, snapshotCount,
                 lastSnapshotTime,
                 isTakingSnapshot, violationCount, appState, cameraReady,
                 hasPermission, violationModal, cameraRef, permissionPending,
                 cycles, cycleSeq, permissionRequests, takePhotoCalls,
                 uploadCalls, lastClean, lastShows, newestDoneSeq,
                 resumed, disqualifiedSeen,
                 timeRemaining, currentQuestionIndex, userAnswers,
                 showSubmitModal, submitting, autoSaving, questionStartTime,
                 autoSaveTimeoutRef, savesInFlight, submitsInFlight, now,
                 dwellMs, saveCallCount, lastSaveCall, savedAnswers, burst, editCount,
                 submitCallCount, lastSubmit, userPressedSubmit>>

\* ---------------------------------------------------- proctoring operations

\* Camera.requestCameraPermission() resolves.
PermissionResolved(granted) ==
  /\ permissionPending
  /\ permissionPending' = FALSE
  /\ IF mounted
     THEN /\ hasPermission' = granted
          /\ LET tr == IF granted /= hasPermission
                       THEN StartEffect([timers |-> timers,
                                         ref |-> snapshotIntervalRef],
                                        IsProctoringEnabled,
                                        [RenderEnv EXCEPT !.hasPermission = granted])
                       ELSE [timers |-> timers, ref |-> snapshotIntervalRef]
             IN  /\ timers' = tr.timers
                 /\ snapshotIntervalRef' = tr.ref
                 /\ Cardinality(tr.timers) <= MaxTimers
     ELSE UNCHANGED <<hasPermission, timers, snapshotIntervalRef>>
  /\ UNCHANGED <<sharedVars, examVars, snapshotCount, lastSnapshotTime,
                 isTakingSnapshot, violationCount, appState, cameraReady,
                 violationModal, cameraRef, cycles, cycleSeq,
                 permissionRequests, takePhotoCalls, uploadCalls, lastClean,
                 lastShows, newestDoneSeq, resumed,
                 disqualifiedSeen>>

\* ExamScreen's effect calls setCameraRef with the rendered Camera.
CameraMounted ==
  /\ mounted
  /\ CameraRendered
  /\ ~cameraRef
  /\ cameraRef' = TRUE
  /\ cameraReady' = TRUE
  /\ LET tr == StartEffect([timers |-> timers, ref |-> snapshotIntervalRef],
                           IsProctoringEnabled,
                           [RenderEnv EXCEPT !.cameraReady = TRUE])
     IN  /\ timers' = tr.timers
         /\ snapshotIntervalRef' = tr.ref
         /\ Cardinality(tr.timers) <= MaxTimers
  /\ UNCHANGED <<sharedVars, examVars, snapshotCount, lastSnapshotTime,
                 isTakingSnapshot, violationCount, appState, hasPermission,
                 violationModal, permissionPending, cycles, cycleSeq,
                 permissionRequests, takePhotoCalls, uploadCalls, lastClean,
                 lastShows, newestDoneSeq, resumed,
                 disqualifiedSeen>>

\* The AppState listener, with the effect on [appState].
AppStateChange(nextAppState) ==
  /\ mounted
  /\ nextAppState /= appState
  /\ appState' = nextAppState
  /\ LET tr == AppStateEffect([timers |-> timers, ref |-> snapshotIntervalRef],
                              IsProctoringEnabled,
                              [RenderEnv EXCEPT !.appState = nextAppState])
     IN  /\ timers' = tr.timers
         /\ snapshotIntervalRef' = tr.ref
         /\ Cardinality(tr.timers) <= MaxTimers
         /\ resumed' = (nextAppState = "active" /\ snapshotIntervalRef = 0
                        /\ tr.ref /= 0)
  /\ UNCHANGED <<sharedVars, examVars, snapshotCount, lastSnapshotTime,
                 isTakingSnapshot, violationCount, cameraReady, hasPermission,
                 violationModal, cameraRef, permissionPending, cycles,
                 cycleSeq, permissionRequests, takePhotoCalls, uploadCalls,
                 lastClean, lastShows, newestDoneSeq,
                 disqualifiedSeen>>

\* The user presses the modal's button: closeViolationModal.
CloseViolationModal ==
  /\ mounted
  /\ violationModal.visible
  /\ violationModal' = CloseModal(violationModal)
  /\ UNCHANGED <<sharedVars, examVars, snapshotCount, lastSnapshotTime,
                 isTakingSnapshot, violationCount, appState, cameraReady,
                 hasPermission, cameraRef, timers, snapshotIntervalRef,
                 permissionPending, cycles, cycleSeq, permissionRequests,
                 takePhotoCalls, uploadCalls, lastClean, lastShows,
                 newestDoneSeq, resumed,
                 disqualifiedSeen>>

\* The platform's back request while the modal is open: the Modal's
\* onRequestClose is onClose unless isDisqualified, and then undefined.
RequestClose ==
  /\ mounted
  /\ violationModal.visible
  /\ ~violationModal.isDisqualified
  /\ violationModal' = CloseModal(violationModal)
  /\ UNCHANGED <<sharedVars, examVars, snapshotCount, lastSnapshotTime,
                 isTakingSnapshot, violationCount, appState, cameraReady,
                 hasPermission, cameraRef, timers, snapshotIntervalRef,
                 permissionPending, cycles, cycleSeq, permissionRequests,
                 takePhotoCalls, uploadCalls, lastClean, lastShows,
                 newestDoneSeq, resumed, disqualifiedSeen>>

\* takeAndUploadSnapshot's two early returns, on the values the callback
\* captured: the busy flag, then camera readiness and permission.
EntryGuardPasses(env) ==
  ~env.isTakingSnapshot /\ env.cameraReady /\ env.hasPermission

\* captureImageSilently reaches takePhoto: app state and permission as
\* captured, the camera ref as it is now.
CaptureAvailable(env) ==
  env.appState = "active" /\ cameraRef /\ env.hasPermission

\* A state update of the hook: React drops it once the screen is unmounted.
SetState(current, value) == IF mounted THEN value ELSE current

\* A timer callback runs takeAndUploadSnapshot up to its first suspension.
\* A warm-up timeout fires once; an interval stays live.
TimerFire(t) ==
  /\ t \in timers
  /\ LET rest == IF t.kind = "warmup" THEN timers \ {t} ELSE timers
     IN  timers' = rest
  /\ IF ~EntryGuardPasses(t.env)
     THEN /\ t.kind = "warmup"
          /\ UNCHANGED <<isTakingSnapshot, cycles, cycleSeq, takePhotoCalls>>
     ELSE /\ cycleSeq < MaxCycles
          /\ cycleSeq' = cycleSeq + 1
          /\ IF CaptureAvailable(t.env)
             THEN /\ isTakingSnapshot' = SetState(isTakingSnapshot, TRUE)
                  /\ takePhotoCalls' = takePhotoCalls + 1
                  /\ cycles' = cycles \cup {[seq |-> cycleSeq + 1,
                                             phase |-> "capture"]}
             ELSE /\ isTakingSnapshot' = SetState(isTakingSnapshot, FALSE)
                  /\ UNCHANGED <<cycles, takePhotoCalls>>
  /\ UNCHANGED <<sharedVars, examVars, snapshotCount, lastSnapshotTime,
                 violationCount, appState, cameraReady, hasPermission,
                 violationModal, snapshotIntervalRef, cameraRef,
                 permissionPending, permissionRequests, uploadCalls,
                 lastClean, lastShows, newestDoneSeq, resumed,
                 disqualifiedSeen>>

\* A mutant of CaptureDone: a failed capture is uploaded all the same.
CaptureDoneUploadsAnyway(c, ok) ==
  /\ c \in cycles
  /\ c.phase = "capture"
  /\ cycles' = (cycles \ {c}) \cup {[c EXCEPT !.phase = "upload"]}
  /\ uploadCalls' = uploadCalls + 1
  /\ UNCHANGED isTakingSnapshot
  /\ UNCHANGED <<sharedVars, examVars, snapshotCount, lastSnapshotTime,
                 violationCount, appState, cameraReady, hasPermission,
                 violationModal, snapshotIntervalRef, cameraRef, timers,
                 permissionPending, cycleSeq, permissionRequests,
                 takePhotoCalls, lastClean, lastShows, newestDoneSeq, resumed,
                 disqualifiedSeen>>

\* takePhoto settles.  With an image the cycle goes on to the upload; a
\* platform error is caught in captureImageSilently and the cycle ends.
CaptureDone(c, ok) ==
  /\ c \in cycles
  /\ c.phase = "capture"
  /\ IF ok
     THEN /\ cycles' = (cycles \ {c}) \cup {[c EXCEPT !.phase = "upload"]}
          /\ uploadCalls' = uploadCalls + 1
          /\ UNCHANGED isTakingSnapshot
     ELSE /\ cycles' = cycles \ {c}
          /\ isTakingSnapshot' = SetState(isTakingSnapshot, FALSE)
          /\ UNCHANGED uploadCalls
  /\ UNCHANGED <<sharedVars, examVars, snapshotCount, lastSnapshotTime,
                 violationCount, appState, cameraReady, hasPermission,
                 violationModal, snapshotIntervalRef, cameraRef, timers,
                 permissionPending, cycleSeq, permissionRequests,
                 takePhotoCalls, lastClean, lastShows, newestDoneSeq, resumed,
                 disqualifiedSeen>>

\* A mutant of UploadDone: the snapshot is counted after the modal code, so
\* not when that code throws.
UploadDoneCountsLast(c, response) ==
  /\ c \in cycles
  /\ c.phase = "upload"
  /\ cycles' = cycles \ {c}
  /\ LET m == ModalAfterResponse(violationModal, response)
     IN  IF mounted
         THEN /\ snapshotCount' = IF m.threw THEN snapshotCount
                                   ELSE snapshotCount + 1
              /\ lastSnapshotTime' = now
              /\ violationCount' = response.violation_count
              /\ violationModal' = m.modal
              /\ isTakingSnapshot' = FALSE
              /\ lastClean' = (response.violations = <<>>
                               /\ ~response.auto_disqualified)
              /\ lastShows' = m.shows
              /\ newestDoneSeq' = IF c.seq > newestDoneSeq THEN c.seq
                                  ELSE newestDoneSeq
              /\ disqualifiedSeen' = (disqualifiedSeen
                                      \/ response.auto_disqualified)
         ELSE UNCHANGED <<snapshotCount, lastSnapshotTime, violationCount,
                          violationModal, isTakingSnapshot, lastClean,
                          lastShows, newestDoneSeq,
                          disqualifiedSeen>>
  /\ UNCHANGED <<sharedVars, examVars, appState, cameraReady, hasPermission,
                 snapshotIntervalRef, cameraRef, timers, permissionPending,
                 cycleSeq, permissionRequests, takePhotoCalls, uploadCalls,
                 resumed>>

\* takeProctoringSnapshot returns: counters, modal, then the finally block.
UploadDone(c, response) ==
  /\ c \in cycles
  /\ c.phase = "upload"
  /\ cycles' = cycles \ {c}
  /\ LET m == ModalAfterResponse(violationModal, response)
     IN  IF mounted
         THEN /\ snapshotCount' = snapshotCount + 1
              /\ lastSnapshotTime' = now
              /\ violationCount' = response.violation_count
              /\ violationModal' = m.modal
              /\ isTakingSnapshot' = FALSE
              /\ lastClean' = (response.violations = <<>>
                               /\ ~response.auto_disqualified)
              /\ lastShows' = m.shows
              /\ newestDoneSeq' = IF c.seq > newestDoneSeq THEN c.seq
                                  ELSE newestDoneSeq
              /\ disqualifiedSeen' = (disqualifiedSeen
                                      \/ response.auto_disqualified)
         ELSE UNCHANGED <<snapshotCount, lastSnapshotTime, violationCount,
                          violationModal, isTakingSnapshot, lastClean,
                          lastShows, newestDoneSeq,
                          disqualifiedSeen>>
  /\ UNCHANGED <<sharedVars, examVars, appState, cameraReady, hasPermission,
                 snapshotIntervalRef, cameraRef, timers, permissionPending,
                 cycleSeq, permissionRequests, takePhotoCalls, uploadCalls,
                 resumed>>

\* A mutant of UploadFailed: the failure is surfaced in the violation modal.
UploadFailedShowsModal(c) ==
  /\ c \in cycles
  /\ c.phase = "upload"
  /\ cycles' = cycles \ {c}
  /\ isTakingSnapshot' = SetState(isTakingSnapshot, FALSE)
  /\ violationModal' = [violationModal EXCEPT !.visible = TRUE]
  /\ UNCHANGED <<sharedVars, examVars, snapshotCount, lastSnapshotTime,
                 violationCount, appState, cameraReady, hasPermission,
                 snapshotIntervalRef, cameraRef, timers, permissionPending,
                 cycleSeq, permissionRequests, takePhotoCalls, uploadCalls,
                 lastClean, lastShows, newestDoneSeq, resumed,
                 disqualifiedSeen>>

\* takeProctoringSnapshot throws (no token, network or server error): the
\* catch block logs and the finally block clears the flag.
UploadFailed(c) ==
  /\ c \in cycles
  /\ c.phase = "upload"
  /\ cycles' = cycles \ {c}
  /\ isTakingSnapshot' = SetState(isTakingSnapshot, FALSE)
  /\ UNCHANGED <<sharedVars, examVars, snapshotCount, lastSnapshotTime,
                 violationCount, appState, cameraReady, hasPermission,
                 violationModal, snapshotIntervalRef, cameraRef, timers,
                 permissionPending, cycleSeq, permissionRequests,
                 takePhotoCalls, uploadCalls, lastClean, lastShows,
                 newestDoneSeq, resumed,
                 disqualifiedSeen>>

\* Values an attempt can be loaded with.
AttemptFlags == BOOLEAN
AttemptTimes == 0..MaxCountdown

NextProctor ==
  \/ \E e \in AttemptFlags : LoadAttempt(e, MaxCountdown)
  \/ LoadQuestions
  \/ \E g \in BOOLEAN : PermissionResolved(g)
  \/ CameraMounted
  \/ \E a \in {"active", "background"} : AppStateChange(a)
  \/ \E t \in timers : TimerFire(t)
  \/ \E c \in cycles, ok \in BOOLEAN : CaptureDone(c, ok)
  \/ \E c \in cycles, r \in Responses : UploadDone(c, r)
  \/ \E c \in cycles : UploadFailed(c)
  \/ CloseViolationModal
  \/ Unmount

SpecProctor == Init /\ [][NextProctor]_vars

\* The props ViolationModal can be rendered with: every value of
\* ViolationModalState over the types and counts drawn.
ModalTypes ==
  {"no_face", "multiple_faces", "looking_away", "suspicious_gaze",
   "head_pose_violation", "disqualified"}

ModalStates ==
  {[visible |-> v, violationType |-> ty,
    violationTitle |-> GetViolationDetails(ty).title,
    totalViolations |-> n, isDisqualified |-> d] :
     v \in BOOLEAN, ty \in ModalTypes, n \in ViolationCounts, d \in BOOLEAN}

InitModal ==
  /\ violationModal \in ModalStates
  /\ questionsData = ExamQuestions
  /\ InitScreen

\* The ViolationModal component and closeViolationModal, on any modal state.
NextModal ==
  \/ \E e \in AttemptFlags : LoadAttempt(e, 0)
  \/ LoadQuestions
  \/ CloseViolationModal
  \/ RequestClose
  \/ Unmount

SpecModal == InitModal /\ [][NextModal]_vars

\* The same, with the scheduling the platform provides: a live timer fires,
\* a pending takePhoto settles, a pending upload returns or fails.
SpecProctorLive ==
  /\ Init
  /\ [][NextProctor]_vars
  /\ WF_vars(\E t \in timers : TimerFire(t))
  /\ WF_vars(\E c \in cycles, ok \in BOOLEAN : CaptureDone(c, ok))
  /\ WF_vars(\E c \in cycles :
               UploadFailed(c) \/ \E r \in Responses : UploadDone(c, r))

\* ---------------------------------------------------- exam session data

\* The answers a user is drawn to give.
Answers == {"A", "B"}

\* Math.floor((Date.now() - start) / 1000), the clock being in 500 ms ticks
\* A mutant of ElapsedSeconds: the subtraction is the wrong way round.
ElapsedSecondsBackwards(start, end) == ((start - end) * 500) \div 1000

ElapsedSeconds(start, end) == ((end - start) * 500) \div 1000

\* questions[index], index 0-based; 0 stands for undefined
QuestionAt(qs, index) == IF index + 1 \in DOMAIN qs THEN qs[index + 1] ELSE 0

\* A mutant of UpdateQuestionTime: a question without an entry gets one.
UpdateQuestionTimeCreates(answers, questionId, additionalTime) ==
  IF questionId \in DOMAIN answers
  THEN [answers EXCEPT ![questionId].timeSpent = @ + additionalTime]
  ELSE [q \in DOMAIN answers \cup {questionId} |->
          IF q = questionId
          THEN [questionId |-> questionId, answer |-> "",
                isFlagged |-> FALSE, timeSpent |-> additionalTime]
          ELSE answers[q]]

\* A mutant of UpdateQuestionTime: the time is dropped while an auto-save
\* is pending or in flight.
UpdateQuestionTimeUnlessSaving(answers, questionId, additionalTime) ==
  IF questionId \in DOMAIN answers /\ saveTimers = {} /\ savesInFlight = 0
  THEN [answers EXCEPT ![questionId].timeSpent = @ + additionalTime]
  ELSE answers

\* updateQuestionTime: adds to an existing entry, creates none
UpdateQuestionTime(answers, questionId, additionalTime) ==
  IF questionId \in DOMAIN answers
  THEN [answers EXCEPT ![questionId].timeSpent = @ + additionalTime]
  ELSE answers

\* userAnswers[id]?.answer || "" and userAnswers[id]?.isFlagged || false
CurrentAnswer(questionId) ==
  IF questionId \in DOMAIN userAnswers THEN userAnswers[questionId].answer ELSE ""

CurrentFlag(questionId) ==
  IF questionId \in DOMAIN userAnswers THEN userAnswers[questionId].isFlagged ELSE FALSE

\* A mutant of WithAnswer: the updater forgets to spread the previous map.
WithAnswerOnly(answers, questionId, answer, isFlagged, timeSpent) ==
  LET entry == [questionId |-> questionId, answer |-> answer,
                isFlagged |-> isFlagged,
                timeSpent |-> IF questionId \in DOMAIN answers
                              THEN answers[questionId].timeSpent + timeSpent
                              ELSE timeSpent]
  IN  [q \in {questionId} |-> entry]

\* The setUserAnswers updater of autoSaveAnswer.  (The startTime field is
\* written here and read nowhere; it is left out.)
WithAnswer(answers, questionId, answer, isFlagged, timeSpent) ==
  LET entry == [questionId |-> questionId, answer |-> answer,
                isFlagged |-> isFlagged,
                timeSpent |-> IF questionId \in DOMAIN answers
                              THEN answers[questionId].timeSpent + timeSpent
                              ELSE timeSpent]
  IN  [q \in DOMAIN answers \cup {questionId} |->
         IF q = questionId THEN entry ELSE answers[q]]

\* A mutant of RearmDebounce: the pending timeout is not cleared.
RearmDebounceNoClear(ts, ref, questionId, answer, isFlagged) ==
  LET id == FreshId(TimerIds(ts))
  IN  [timers |-> ts \cup {[id |-> id, questionId |-> questionId,
                            answer |-> answer, isFlagged |-> isFlagged]},
       ref |-> id]

\* autoSaveAnswer's debounce: clearTimeout(autoSaveTimeoutRef.current), then
\* a new timeout holding this call's arguments.
RearmDebounce(ts, ref, questionId, answer, isFlagged) ==
  LET kept == IF ref /= 0 THEN {t \in ts : t.id /= ref} ELSE ts
      id == FreshId(TimerIds(kept))
  IN  [timers |-> kept \cup {[id |-> id, questionId |-> questionId,
                              answer |-> answer, isFlagged |-> isFlagged]},
       ref |-> id]

\* Number.prototype.toString on a non-negative integer: its decimal digits.
Digits == <<"0", "1", "2", "3", "4", "5", "6", "7", "8", "9">>

RECURSIVE IdString(_)
IdString(n) ==
  IF n < 10 THEN Digits[n + 1]
  ELSE IdString(n \div 10) \o Digits[(n % 10) + 1]

\* answersForSubmit: one entry per UserAnswer of the given map, under the
\* key questionId.toString()
SubmitPayload(answers) ==
  [k \in {IdString(answers[q].questionId) : q \in DOMAIN answers} |->
     LET a == answers[CHOOSE q \in DOMAIN answers :
                        IdString(answers[q].questionId) = k]
     IN  [question_id |-> a.questionId, answer |-> a.answer,
          is_flagged |-> a.isFlagged, time_spent |-> a.timeSpent]]

\* The values of the current render that submitExam reads.
ExamEnv ==
  [live |-> TRUE, questions |-> questions,
   currentQuestionIndex |-> currentQuestionIndex,
   userAnswers |-> userAnswers, questionStartTime |-> questionStartTime]

\* The submit button of the modal carries no disabled prop.
SubmitButtonEnabled == TRUE

\* The exam screen takes touches: loaded, and no modal covers it.
ScreenInteractive ==
  mounted /\ questions /= <<>> /\ ~showSubmitModal /\ ~violationModal.visible

\* ------------------------------------------------ exam session operations

\* The clock advances by one tick.
Tick ==
  /\ now < MaxTime
  /\ now' = now + 1
  /\ dwellMs' = IF mounted /\ questions /= <<>>
                THEN [dwellMs EXCEPT
                        ![QuestionAt(questions, currentQuestionIndex)] = @ + 500]
                ELSE dwellMs
  /\ UNCHANGED <<sharedVars, proctorVars, timeRemaining, currentQuestionIndex,
                 userAnswers, showSubmitModal, submitting, autoSaving,
                 questionStartTime, autoSaveTimeoutRef, saveTimers,
                 savesInFlight, countdown, timeEffect, submitsInFlight,
                 saveCallCount, lastSaveCall, savedAnswers, burst, editCount,
                 submitCallCount, lastSubmit, userPressedSubmit>>

\* submitExam as written in the render whose values are env, up to the
\* await of submitExamApi.
SubmitExamStart(env, auto) ==
  /\ submitCallCount < MaxSubmits
  /\ submitting' = TRUE
  /\ userAnswers' = UpdateQuestionTime(userAnswers,
                      QuestionAt(env.questions, env.currentQuestionIndex),
                      ElapsedSeconds(env.questionStartTime, now))
  /\ submitCallCount' = submitCallCount + 1
  /\ lastSubmit' = [auto |-> auto, payload |-> SubmitPayload(env.userAnswers),
                    memory |-> userAnswers, closed |-> userAnswers',
                    outcome |-> "pending",
                    retry |-> (lastSubmit.outcome = "failed"),
                    previous |-> [payload |-> lastSubmit.payload,
                                  memory |-> lastSubmit.memory]]
  /\ submitsInFlight' = submitsInFlight + 1

\* The countdown interval's callback: the setTimeRemaining updater.
CountdownTick ==
  /\ countdown.live
  /\ IF timeRemaining <= 0
     THEN /\ countdown' = [countdown EXCEPT !.live = FALSE]
          /\ timeRemaining' = 0
          /\ SubmitExamStart(countdown, TRUE)
     ELSE /\ timeRemaining' = timeRemaining - 1
          /\ UNCHANGED <<countdown, submitting, userAnswers, submitCallCount,
                         lastSubmit, submitsInFlight>>
  /\ UNCHANGED <<sharedVars, proctorVars, currentQuestionIndex,
                 showSubmitModal, autoSaving, questionStartTime,
                 autoSaveTimeoutRef, saveTimers, savesInFlight, timeEffect,
                 now, dwellMs, saveCallCount, lastSaveCall, savedAnswers, burst, editCount,
                 userPressedSubmit>>

\* The header's Finish button.
OpenSubmitModal ==
  /\ ScreenInteractive
  /\ showSubmitModal' = TRUE
  /\ UNCHANGED <<sharedVars, proctorVars, timeRemaining, currentQuestionIndex,
                 userAnswers, submitting, autoSaving, questionStartTime,
                 autoSaveTimeoutRef, saveTimers, savesInFlight, countdown,
                 timeEffect, submitsInFlight, now, dwellMs, saveCallCount,
                 lastSaveCall, savedAnswers, burst, editCount, submitCallCount, lastSubmit,
                 userPressedSubmit>>

\* The modal's Review button.
CancelSubmitModal ==
  /\ mounted
  /\ showSubmitModal
  /\ showSubmitModal' = FALSE
  /\ UNCHANGED <<sharedVars, proctorVars, timeRemaining, currentQuestionIndex,
                 userAnswers, submitting, autoSaving, questionStartTime,
                 autoSaveTimeoutRef, saveTimers, savesInFlight, countdown,
                 timeEffect, submitsInFlight, now, dwellMs, saveCallCount,
                 lastSaveCall, savedAnswers, burst, editCount, submitCallCount, lastSubmit,
                 userPressedSubmit>>

\* The modal's Submit Exam button: onPress={submitExam}.
PressSubmit ==
  /\ mounted
  /\ showSubmitModal
  /\ ~violationModal.visible
  /\ SubmitButtonEnabled
  /\ userPressedSubmit' = TRUE
  /\ SubmitExamStart(ExamEnv, FALSE)
  /\ UNCHANGED <<sharedVars, proctorVars, timeRemaining, currentQuestionIndex,
                 showSubmitModal, autoSaving, questionStartTime,
                 autoSaveTimeoutRef, saveTimers, savesInFlight, countdown,
                 timeEffect, now, dwellMs, saveCallCount, lastSaveCall, savedAnswers, burst,
                 editCount>>

\* submitExamApi settles: the alert, then the finally block.
SubmitDone(ok) ==
  /\ submitsInFlight > 0
  /\ submitsInFlight' = submitsInFlight - 1
  /\ submitting' = IF mounted THEN FALSE ELSE submitting
  /\ showSubmitModal' = IF mounted THEN FALSE ELSE showSubmitModal
  /\ lastSubmit' = [lastSubmit EXCEPT
                      !.outcome = IF ok THEN "ok" ELSE "failed"]
  /\ UNCHANGED <<sharedVars, proctorVars, timeRemaining, currentQuestionIndex,
                 userAnswers, autoSaving, questionStartTime,
                 autoSaveTimeoutRef, saveTimers, savesInFlight, countdown,
                 timeEffect, now, dwellMs, saveCallCount, lastSaveCall, savedAnswers, burst,
                 editCount, submitCallCount, userPressedSubmit>>

\* autoSaveAnswer(questionId, answer, isFlagged) on the question displayed.
AutoSaveAnswer(questionId, answer, isFlagged) ==
  /\ editCount < MaxEdits
  /\ editCount' = editCount + 1
  /\ autoSaving' = TRUE
  /\ userAnswers' = WithAnswer(userAnswers, questionId, answer, isFlagged,
                               ElapsedSeconds(questionStartTime, now))
  /\ questionStartTime' = now
  /\ LET d == RearmDebounce(saveTimers, autoSaveTimeoutRef, questionId, answer,
                            isFlagged)
     IN  /\ saveTimers' = d.timers
         /\ autoSaveTimeoutRef' = d.ref
  /\ burst' = IF saveTimers /= {} /\ ~burst.closed /\ burst.questionId = questionId
              THEN [burst EXCEPT !.n = @ + 1, !.answer = answer,
                                 !.isFlagged = isFlagged]
              ELSE [n |-> 1, questionId |-> questionId, answer |-> answer,
                    isFlagged |-> isFlagged, callsAtStart |-> saveCallCount,
                    closed |-> FALSE]
  /\ UNCHANGED <<sharedVars, proctorVars, timeRemaining, currentQuestionIndex,
                 showSubmitModal, submitting, savesInFlight, countdown,
                 timeEffect, submitsInFlight, now, dwellMs, saveCallCount,
                 lastSaveCall, savedAnswers, submitCallCount, lastSubmit, userPressedSubmit>>

\* An option press or text change on the question displayed.
EditAnswer(answer) ==
  /\ ScreenInteractive
  /\ LET q == QuestionAt(questions, currentQuestionIndex)
     IN  AutoSaveAnswer(q, answer, CurrentFlag(q))

\* The Review/Flagged button of the question displayed.
ToggleFlag ==
  /\ ScreenInteractive
  /\ LET q == QuestionAt(questions, currentQuestionIndex)
     IN  AutoSaveAnswer(q, CurrentAnswer(q), ~CurrentFlag(q))

\* The debounce timeout fires: submitAnswer is called with its arguments.
SaveTimerFire(t) ==
  /\ t \in saveTimers
  /\ saveTimers' = saveTimers \ {t}
  /\ saveCallCount' = saveCallCount + 1
  /\ lastSaveCall' = [questionId |-> t.questionId, answer |-> t.answer,
                      isFlagged |-> t.isFlagged]
  /\ savedAnswers' = [q \in DOMAIN savedAnswers \cup {t.questionId} |->
                        IF q = t.questionId THEN t.answer
                        ELSE savedAnswers[q]]
  /\ savesInFlight' = savesInFlight + 1
  /\ burst' = IF burst.n > 0 /\ ~burst.closed
              THEN [burst EXCEPT !.closed = TRUE]
              ELSE burst
  /\ UNCHANGED <<sharedVars, proctorVars, timeRemaining, currentQuestionIndex,
                 userAnswers, showSubmitModal, submitting, autoSaving,
                 questionStartTime, autoSaveTimeoutRef, countdown, timeEffect,
                 submitsInFlight, now, dwellMs, editCount, submitCallCount,
                 lastSubmit, userPressedSubmit>>

\* submitAnswer settles: the finally block of the timeout callback.
SaveDone(ok) ==
  /\ savesInFlight > 0
  /\ savesInFlight' = savesInFlight - 1
  /\ autoSaving' = IF mounted THEN FALSE ELSE autoSaving
  /\ UNCHANGED <<sharedVars, proctorVars, timeRemaining, currentQuestionIndex,
                 userAnswers, showSubmitModal, submitting, questionStartTime,
                 autoSaveTimeoutRef, saveTimers, countdown, timeEffect,
                 submitsInFlight, now, dwellMs, saveCallCount, lastSaveCall, savedAnswers,
                 burst, editCount, submitCallCount, lastSubmit,
                 userPressedSubmit>>

\* navigateToQuestion(index), then, when the index changed, the
\* time-tracking effect: the previous run's cleanup and the new run.
NavigateToQuestion(index) ==
  /\ ScreenInteractive
  /\ index + 1 \in DOMAIN questions
  /\ LET leaving == QuestionAt(questions, currentQuestionIndex)
         closed == UpdateQuestionTime(userAnswers, leaving,
                                      ElapsedSeconds(questionStartTime, now))
     IN  IF index /= currentQuestionIndex
         THEN /\ userAnswers' =
                   IF timeEffect.live
                   THEN UpdateQuestionTime(closed, timeEffect.questionId,
                          ElapsedSeconds(timeEffect.questionStartTime, now))
                   ELSE closed
              /\ timeEffect' = [live |-> TRUE,
                                questionId |-> QuestionAt(questions, index),
                                questionStartTime |-> now]
         ELSE /\ userAnswers' = closed
              /\ UNCHANGED timeEffect
  /\ currentQuestionIndex' = index
  /\ questionStartTime' = now
  /\ UNCHANGED <<sharedVars, proctorVars, timeRemaining, showSubmitModal,
                 submitting, autoSaving, autoSaveTimeoutRef, saveTimers,
                 savesInFlight, countdown, submitsInFlight, now, dwellMs,
                 saveCallCount, lastSaveCall, savedAnswers, burst, editCount,
                 submitCallCount, lastSubmit, userPressedSubmit>>

\* Answer editing, debounced saving, navigation and time accounting.
NextSave ==
  \/ LoadAttempt(FALSE, 0)
  \/ LoadQuestions
  \/ Tick
  \/ \E a \in Answers : EditAnswer(a)
  \/ ToggleFlag
  \/ \E t \in saveTimers : SaveTimerFire(t)
  \/ \E ok \in BOOLEAN : SaveDone(ok)
  \/ \E i \in 0..(Len(QuestionIds) - 1) : NavigateToQuestion(i)
  \/ Unmount

SpecSave == Init /\ [][NextSave]_vars

\* The same with the debounce timeout firing once it is due.
SpecSaveLive ==
  /\ Init
  /\ [][NextSave]_vars
  /\ WF_vars(\E t \in saveTimers : SaveTimerFire(t))

\* Answer editing, the countdown and final submission.
NextSubmit ==
  \/ \E r \in AttemptTimes : LoadAttempt(FALSE, r)
  \/ LoadQuestions
  \/ Tick
  \/ CountdownTick
  \/ OpenSubmitModal
  \/ CancelSubmitModal
  \/ PressSubmit
  \/ \E ok \in BOOLEAN : SubmitDone(ok)
  \/ \E a \in Answers : EditAnswer(a)
  \/ \E i \in 0..(Len(QuestionIds) - 1) : NavigateToQuestion(i)
  \/ Unmount

SpecSubmit == Init /\ [][NextSubmit]_vars

\* The responses and the answer drawn in a session: the clean response, and
\* one option to press.
SessionResponses ==
  {r \in Responses :
     ~r.auto_disqualified /\ r.violations = <<>> /\ r.violation_count = 0}

SessionAnswers == {"A"}

\* A proctored exam session: the proctoring cycles next to answer editing,
\* navigation and submission.
NextSession ==
  \/ LoadAttempt(TRUE, 0)
  \/ LoadQuestions
  \/ \E g \in BOOLEAN : PermissionResolved(g)
  \/ CameraMounted
  \/ \E t \in timers : TimerFire(t)
  \/ \E c \in cycles, ok \in BOOLEAN : CaptureDone(c, ok)
  \/ \E c \in cycles, r \in SessionResponses : UploadDone(c, r)
  \/ \E c \in cycles : UploadFailed(c)
  \/ \E a \in SessionAnswers : EditAnswer(a)
  \/ \E i \in 0..(Len(QuestionIds) - 1) : NavigateToQuestion(i)
  \/ OpenSubmitModal
  \/ PressSubmit
  \/ Unmount

SpecSession == Init /\ [][NextSession]_vars

\* ------------------------------------------------- claims: proctoring

\* The step is the return of cycle c's upload with this response, taken
\* while the screen is mounted.
Returned(c, response) == mounted /\ UploadDone(c, response)

\* C1: at most one capture+upload cycle is in flight at any time.
C1_AtMostOneCycleInFlight == Cardinality(cycles) <= 1

\* C2: a returned response with auto_disqualified = true and no violation
\* of its own leaves the modal visible with isDisqualified = true.
C2_DisqualificationShown ==
  [][\A c \in cycles, r \in Responses :
       (Returned(c, r) /\ r.auto_disqualified /\ r.violations = <<>>)
       => (violationModal'.visible /\ violationModal'.isDisqualified)]_vars

\* C3: a returned response with a non-empty violations list and
\* auto_disqualified = false shows the modal exactly once, with the type of
\* the first violation and the response's violation_count.
C3_ViolationShownOnce ==
  [][\A c \in cycles, r \in Responses :
       (Returned(c, r) /\ r.violations /= <<>> /\ ~r.auto_disqualified)
       => (/\ lastShows' = 1
           /\ violationModal'.visible
           /\ violationModal'.violationType = Head(r.violations).type
           /\ violationModal'.totalViolations = r.violation_count)]_vars

C5_CountOfNewestIssuedUpload ==
  [][\A c \in cycles, r \in Responses :
       Returned(c, r)
       => violationCount' = IF c.seq > newestDoneSeq THEN r.violation_count
                            ELSE violationCount]_vars

\* C10: for an attempt without proctoring no permission is requested, no
\* photo is taken, nothing is uploaded and no snapshot timer exists.
C10_NoProctoringWhenDisabled ==
  ~IsProctoringEnabled =>
    /\ permissionRequests = 0
    /\ ~permissionPending
    /\ takePhotoCalls = 0
    /\ uploadCalls = 0
    /\ cycleSeq = 0
    /\ timers = {}

\* C10 witness: an unproctored attempt with its questions on screen, after
\* the app went to the background.
C10_Witness ==
  /\ attempt.loaded
  /\ ~attempt.proctoring_enabled
  /\ questions /= <<>>
  /\ appState = "background"

\* ------------------------------------------------ claims: exam session

\* C6: a question's timeSpent is the sum of its dwell intervals, each
\* counted once; so the seconds recorded for a question never exceed the
\* time the question has been the current one.
C6_TimeSpentWithinDwell ==
  \A q \in DOMAIN userAnswers : userAnswers[q].timeSpent * 1000 <= dwellMs[q]

C8_AutoSubmitCarriesEveryAnswer ==
  (lastSubmit.auto /\ ~userPressedSubmit) =>
    /\ submitCallCount = 1
    /\ {lastSubmit.payload[k].question_id : k \in DOMAIN lastSubmit.payload}
         = DOMAIN lastSubmit.memory

\* C9: no submitExam call starts while submitting is true.
C9_NoSubmitWhileSubmitting ==
  [][submitCallCount' > submitCallCount => ~submitting]_vars

\* ------------------------------------------- claims: proctoring lifecycle

\* C11: until proctoring is enabled and the camera is ready and permission
\* is granted, no snapshot timer exists, no cycle has started and no photo
\* has been taken; so after a denial the scheduler never arms.
C11_NothingBeforeReady ==
  ~(IsProctoringEnabled /\ cameraReady /\ hasPermission) =>
    /\ timers = {}
    /\ snapshotIntervalRef = 0
    /\ cycleSeq = 0
    /\ takePhotoCalls = 0

\* C11 witness: permission was asked for and denied, the camera is ready,
\* and the app has been to the background and is back.
C11_Witness ==
  /\ IsProctoringEnabled
  /\ permissionRequests = 1
  /\ ~permissionPending
  /\ ~hasPermission
  /\ cameraReady
  /\ appState = "active"
  /\ mounted

\* C12: once the screen is torn down no capture+upload cycle starts, and a
\* cycle that finishes changes no counter and no modal state.
C12_NothingAfterTeardown ==
  [][~mounted =>
       /\ cycleSeq' = cycleSeq
       /\ takePhotoCalls' = takePhotoCalls
       /\ snapshotCount' = snapshotCount
       /\ violationCount' = violationCount
       /\ lastSnapshotTime' = lastSnapshotTime
       /\ violationModal' = violationModal]_vars

\* C13: takePhoto is never issued while the app is not in the foreground.
C13_NoPhotoInBackground ==
  [][takePhotoCalls' > takePhotoCalls => appState = "active"]_vars

\* C14: a step that takes the app out of the foreground while an interval is
\* live clears the interval and leaves snapshotCount, violationCount,
\* lastSnapshotTime and the modal state as they were.
C14_BackgroundPausesOnly ==
  [][(appState = "active" /\ appState' /= "active" /\ snapshotIntervalRef /= 0)
       => /\ snapshotIntervalRef' = 0
          /\ \A t \in timers' : t.kind /= "interval"
          /\ snapshotCount' = snapshotCount
          /\ violationCount' = violationCount
          /\ lastSnapshotTime' = lastSnapshotTime
          /\ violationModal' = violationModal]_vars

\* C14 witness: the app is in the background with the interval cleared,
\* after an upload had returned and shown the modal.
C14_Witness ==
  /\ appState = "background"
  /\ snapshotIntervalRef = 0
  /\ IsProctoringEnabled /\ cameraReady /\ hasPermission
  /\ snapshotCount = 1
  /\ violationCount = 1
  /\ violationModal.visible

\* C15: after a return to the foreground has re-armed the interval, and
\* while the screen stays mounted and the app in the foreground, a further
\* capture+upload cycle eventually starts.
C15_ResumeLeadsToCycle ==
  \A n \in 0..(MaxCycles - 1) :
    (resumed /\ mounted /\ appState = "active" /\ cycleSeq = n)
      ~> (cycleSeq > n \/ ~mounted \/ appState /= "active")

C17_FailureKeepsIntervalRunning ==
  [][\A c \in cycles :
       (mounted /\ UploadFailed(c))
       => /\ timers' = timers
          /\ snapshotIntervalRef' = snapshotIntervalRef
          /\ snapshotCount' = snapshotCount
          /\ violationCount' = violationCount
          /\ violationModal' = violationModal
          /\ ~isTakingSnapshot'
          /\ \A t \in timers' :
               t.id = snapshotIntervalRef' => EntryGuardPasses(t.env)]_vars

\* A step of the proctoring path, and one of its failures: permission
\* denied, a tick whose capture is unavailable, takePhoto failing, the
\* upload failing.
ProctoringStep ==
  \/ \E g \in BOOLEAN : PermissionResolved(g)
  \/ \E t \in timers : TimerFire(t)
  \/ \E c \in cycles, ok \in BOOLEAN : CaptureDone(c, ok)
  \/ \E c \in cycles, r \in Responses : UploadDone(c, r)
  \/ \E c \in cycles : UploadFailed(c)

ProctoringFailure ==
  \/ PermissionResolved(FALSE)
  \/ \E t \in timers : TimerFire(t) /\ cycles' = cycles
  \/ \E c \in cycles : CaptureDone(c, FALSE)
  \/ \E c \in cycles : UploadFailed(c)

\* C18: no step of the proctoring path changes the exam session state (the
\* answers, the current question, the countdown, the submitting flag, the
\* screen being mounted and loaded), and no failure of it changes the
\* violation modal; so whatever of edit, navigation and submit was possible
\* before such a step is possible after it.
C18_ProctoringLeavesExamAlone ==
  [][/\ ProctoringStep => UNCHANGED <<sharedVars, examVars>>
     /\ ProctoringFailure => (/\ violationModal' = violationModal
                              /\ ScreenInteractive' = ScreenInteractive)]_vars

\* C18 witness: one capture and one upload have failed, no upload has come
\* back, and the user has edited an answer and pressed submit.
C18_Witness ==
  /\ mounted
  /\ cycleSeq = 2 /\ takePhotoCalls = 2 /\ uploadCalls = 1
  /\ snapshotCount = 0 /\ cycles = {}
  /\ userAnswers /= <<>>
  /\ submitCallCount = 1

\* C19: the modal's isDisqualified is true only if some returned response
\* had auto_disqualified = true, and no step of the proctoring path submits
\* the exam or leaves the exam screen.
C19_OnlyServerDisqualifies ==
  /\ [](violationModal.isDisqualified => disqualifiedSeen)
  /\ [][ProctoringStep => /\ submitCallCount' = submitCallCount
                          /\ submitting' = submitting
                          /\ mounted' = mounted]_vars

\* C19 witness: a response with auto_disqualified = true has returned, the
\* screen is still mounted and nothing was submitted.
C19_Witness ==
  /\ disqualifiedSeen
  /\ snapshotCount = 1
  /\ mounted
  /\ submitCallCount = 0
  /\ ~submitting

\* C20: the return of an upload while the screen is mounted adds exactly 1
\* to snapshotCount, whatever its verdict, and no other step changes it.
C20_CountsSuccessfulUploads ==
  [][/\ \A c \in cycles, r \in Responses :
          Returned(c, r) => snapshotCount' = snapshotCount + 1
     /\ snapshotCount' /= snapshotCount =>
          \E c \in cycles, r \in Responses : Returned(c, r)]_vars

\* C20 witness: of two uploads one returned, with a disqualifying verdict,
\* and the other failed.
C20_Witness ==
  /\ mounted
  /\ uploadCalls = 2
  /\ cycles = {}
  /\ snapshotCount = 1
  /\ disqualifiedSeen

\* The arguments of the last showViolationModal call a returned response
\* makes: the disqualification call when it is reached, else the call for
\* the first violation of the snapshot.
LastShowCall(response) ==
  IF response.auto_disqualified
     /\ (response.violations = <<>>
         \/ GetViolationDetails(Head(response.violations).type).defined)
  THEN [violationType |-> "disqualified",
        totalViolations |-> response.violation_count, isDisqualified |-> TRUE]
  ELSE [violationType |-> Head(response.violations).type,
        totalViolations |-> response.violation_count, isDisqualified |-> FALSE]

\* C21: the modal is a single slot, never a queue: a show made while the
\* modal is already visible replaces its content, so after a response that
\* makes a show call the slot holds exactly the type, the cumulative count
\* and the isDisqualified flag of the most recent call.
C21_SlotHoldsMostRecentShow ==
  [][\A c \in cycles, r \in Responses :
       (/\ violationModal.visible
        /\ Returned(c, r)
        /\ (r.violations /= <<>> \/ r.auto_disqualified))
       => (/\ violationModal'.visible
           /\ violationModal'.violationType = LastShowCall(r).violationType
           /\ violationModal'.totalViolations = LastShowCall(r).totalViolations
           /\ violationModal'.isDisqualified = LastShowCall(r).isDisqualified)]_vars

\* Every operation that writes the answer map: edits, flag toggles,
\* navigation, manual and automatic submission.
NextTime ==
  \/ LoadAttempt(FALSE, MaxCountdown)
  \/ LoadQuestions
  \/ Tick
  \/ CountdownTick
  \/ \E a \in Answers : EditAnswer(a)
  \/ ToggleFlag
  \/ \E i \in 0..(Len(QuestionIds) - 1) : NavigateToQuestion(i)
  \/ OpenSubmitModal
  \/ PressSubmit
  \/ Unmount

SpecTime == Init /\ [][NextTime]_vars

\* The countdown alone, with no press of a submit button: the interval's
\* callback runs every second while the interval is live.
NextCountdown ==
  \/ \E r \in AttemptTimes : LoadAttempt(FALSE, r)
  \/ LoadQuestions
  \/ Tick
  \/ CountdownTick
  \/ \E a \in Answers : EditAnswer(a)
  \/ \E i \in 0..(Len(QuestionIds) - 1) : NavigateToQuestion(i)
  \/ Unmount

SpecCountdownLive ==
  /\ Init
  /\ [][NextCountdown]_vars
  /\ WF_vars(CountdownTick)

\* Loading the exam for any result list the server may send.
InitSort ==
  /\ violationModal = InitialModal
  /\ questionsData \in QuestionLists
  /\ InitScreen

NextSort ==
  \/ LoadAttempt(FALSE, 0)
  \/ LoadQuestions
  \/ Unmount

SpecSort == InitSort /\ [][NextSort]_vars

\* ------------------------------------------------- claims: submission data

\* The question id a key of the payload's answers map stands for.
ParseId(key) ==
  CHOOSE q \in {QuestionIds[i] : i \in DOMAIN QuestionIds} : IdString(q) = key

\* The payload's answers map re-read as questionId -> {answer, isFlagged,
\* timeSpent}.
Reparse(payload) ==
  [q \in {ParseId(k) : k \in DOMAIN payload} |->
     [answer |-> payload[IdString(q)].answer,
      isFlagged |-> payload[IdString(q)].is_flagged,
      timeSpent |-> payload[IdString(q)].time_spent]]

\* The same three fields of a UserAnswer map.
MemoryView(answers) ==
  [q \in DOMAIN answers |->
     [answer |-> answers[q].answer, isFlagged |-> answers[q].isFlagged,
      timeSpent |-> answers[q].timeSpent]]

\* C22: the answers map of every submit payload, re-read as questionId ->
\* {answer, isFlagged, timeSpent}, equals the UserAnswer map in memory at
\* the moment submitExam was called.
C22_PayloadEqualsMemory ==
  submitCallCount > 0 =>
    Reparse(lastSubmit.payload) = MemoryView(lastSubmit.memory)

\* C23: the dwell on the current question is closed out before the payload
\* is built: every time_spent sent is the timeSpent its question has in
\* the map after the close-out.
C23_PayloadIncludesFinalInterval ==
  submitCallCount > 0 =>
    \A q \in DOMAIN lastSubmit.closed :
      IdString(q) \in DOMAIN lastSubmit.payload =>
        lastSubmit.payload[IdString(q)].time_spent
          = lastSubmit.closed[q].timeSpent

\* The answer each question of a re-read map carries.
AnswerView(answers) == [q \in DOMAIN answers |-> answers[q].answer]

\* C24: when the submit call fails, submitting goes back to false and the
\* answer map is unchanged; a submit attempt made after the failure, with
\* the same answers in memory, sends the same answers as the failed one.
C24_FailedSubmitCanBeRetried ==
  /\ [][(mounted /\ SubmitDone(FALSE))
        => (~submitting' /\ userAnswers' = userAnswers)]_vars
  /\ []((/\ lastSubmit.retry
         /\ AnswerView(lastSubmit.memory)
              = AnswerView(lastSubmit.previous.memory))
        => AnswerView(Reparse(lastSubmit.payload))
             = AnswerView(Reparse(lastSubmit.previous.payload)))

\* ------------------------------------------------- claims: failed capture

\* A cycle whose capture returns null: captureImageSilently returns early
\* (background, no camera ref, no permission) or takePhoto fails.
NullCapture ==
  \/ \E t \in timers :
       TimerFire(t) /\ cycleSeq' > cycleSeq /\ cycles' = cycles
  \/ \E c \in cycles : CaptureDone(c, FALSE)

\* C25: a cycle whose capture returns null makes no upload and leaves
\* snapshotCount, violationCount, lastSnapshotTime and the modal unchanged;
\* it does not capture again or start another cycle, and the interval
\* stays armed for the next tick.
C25_NullCaptureSkipsUpload ==
  [][NullCapture
     => (/\ uploadCalls' = uploadCalls
         /\ snapshotCount' = snapshotCount
         /\ violationCount' = violationCount
         /\ lastSnapshotTime' = lastSnapshotTime
         /\ violationModal' = violationModal
         /\ takePhotoCalls' = takePhotoCalls
         /\ cycles' \subseteq cycles
         /\ \A c \in cycles' : c.phase /= "upload" \/ c \in cycles
         /\ snapshotIntervalRef' = snapshotIntervalRef
         /\ {t \in timers : t.kind = "interval"} \subseteq timers')]_vars

\* C25 witness: two cycles ran while mounted, one found no capture
\* available and the other's takePhoto failed; nothing was uploaded or
\* counted and the interval is still armed.
C25_Witness ==
  /\ mounted
  /\ cycleSeq = 2
  /\ takePhotoCalls = 1
  /\ cycles = {}
  /\ uploadCalls = 0
  /\ snapshotCount = 0
  /\ snapshotIntervalRef /= 0
  /\ \E t \in timers : t.kind = "interval"

\* ------------------------------------------------ claims: saving and time

\* C26: unmounting cancels the pending debounce timer: once the screen is
\* unmounted no debounce timer is armed and no auto-save call is made, so
\* an edit still pending at unmount is never saved.
C26_UnmountCancelsDebounce ==
  /\ [](~mounted => saveTimers = {})
  /\ [][~mounted => saveCallCount' = saveCallCount]_vars

\* C26 witness: the screen was unmounted while the first burst of edits
\* was still waiting for its debounce: no save call was ever made.
C26_Witness ==
  /\ ~mounted
  /\ burst.n > 0
  /\ ~burst.closed
  /\ saveCallCount = 0
  /\ saveTimers = {}

\* C27: navigating closes out the elapsed time of the question being left
\* in the same step, whether or not an auto-save is pending or in flight,
\* and leaves the debounce timer, the saves in flight and every question's
\* answer and flag unchanged.
C27_NavigationClosesOutTime ==
  [][\A i \in 0..(Len(QuestionIds) - 1) :
       NavigateToQuestion(i)
       => LET leaving == QuestionAt(questions, currentQuestionIndex)
          IN  /\ saveTimers' = saveTimers
              /\ autoSaveTimeoutRef' = autoSaveTimeoutRef
              /\ savesInFlight' = savesInFlight
              /\ saveCallCount' = saveCallCount
              /\ DOMAIN userAnswers' = DOMAIN userAnswers
              /\ \A q \in DOMAIN userAnswers :
                   /\ userAnswers'[q].answer = userAnswers[q].answer
                   /\ userAnswers'[q].isFlagged = userAnswers[q].isFlagged
              /\ leaving \in DOMAIN userAnswers
                   => userAnswers'[leaving].timeSpent
                        >= userAnswers[leaving].timeSpent
                           + ElapsedSeconds(questionStartTime, now)
              /\ questionStartTime' = now]_vars

\* C27 witness: the user flagged question 1, stayed a second and moved to
\* question 2 while the debounce of that edit was still pending: the time
\* is closed out, the flag and the timer are still there.
C27_Witness ==
  /\ mounted
  /\ editCount = 1
  /\ currentQuestionIndex = 1
  /\ saveTimers /= {}
  /\ saveCallCount = 0
  /\ 1 \in DOMAIN userAnswers
  /\ userAnswers[1].isFlagged
  /\ userAnswers[1].timeSpent >= 1

\* C28: for every question, timeSpent never decreases, whatever the step:
\* an edit, a flag toggle, a navigation or a submission.
C28_TimeSpentNeverDecreases ==
  [][\A q \in DOMAIN userAnswers :
       /\ q \in DOMAIN userAnswers'
       /\ userAnswers'[q].timeSpent >= userAnswers[q].timeSpent]_vars

\* C28 witness: a question's time has grown through an edit away from the
\* start, and a submission has closed out the current question.
C28_Witness ==
  /\ submitCallCount > 0
  /\ editCount = MaxEdits
  /\ \E q \in DOMAIN lastSubmit.closed :
       /\ q \in DOMAIN lastSubmit.memory
       /\ lastSubmit.closed[q].timeSpent > lastSubmit.memory[q].timeSpent
       /\ lastSubmit.memory[q].timeSpent > 0

\* C29: while the screen is mounted the key set of the answer map only
\* grows, and only by the question displayed when an edit or a flag toggle
\* is made; an existing entry's answer changes only by an edit of that very
\* question, which leaves its flag alone.
C29_EntriesOnlyGrow ==
  [][mounted =>
       LET current == QuestionAt(questions, currentQuestionIndex)
       IN  /\ DOMAIN userAnswers \subseteq DOMAIN userAnswers'
           /\ DOMAIN userAnswers' /= DOMAIN userAnswers
                => /\ editCount' > editCount
                   /\ DOMAIN userAnswers' = DOMAIN userAnswers \cup {current}
           /\ \A q \in DOMAIN userAnswers :
                userAnswers'[q].answer /= userAnswers[q].answer
                  => /\ editCount' > editCount
                     /\ q = current
                     /\ userAnswers'[q].isFlagged = userAnswers[q].isFlagged]_vars

\* C29 witness: question 1 got its entry from a flag toggle, question 2
\* from an edit made later, and both entries are there.
C29_Witness ==
  /\ mounted
  /\ DOMAIN userAnswers = {1, 2}
  /\ userAnswers[1].isFlagged
  /\ userAnswers[1].answer = ""
  /\ userAnswers[2].answer = "B"
  /\ ~userAnswers[2].isFlagged

\* ------------------------------------------------ claims: the question list

\* The key the list is ordered by: subject, section id, question number,
\* a missing value standing for "General" or 0.
SortKey(q) ==
  <<ToLowerCase(StringOr(q.subject, "General")),
    NumberOr(q.pattern_section_id, 0),
    NumberOr(q.question_number, NumberOr(q.question_number_in_pattern, 0))>>

\* a is not greater than b under the key, lexicographically.
KeyNotGreater(a, b) ==
  LET ka == SortKey(a)
      kb == SortKey(b)
  IN  \/ LocaleCompare(ka[1], kb[1]) < 0
      \/ /\ ka[1] = kb[1]
         /\ \/ ka[2] < kb[2]
            \/ ka[2] = kb[2] /\ ka[3] <= kb[3]

\* The question of the result list with the given id.
QuestionById(id) ==
  questionsData[CHOOSE i \in DOMAIN questionsData : questionsData[i].id = id]

\* The same results in another order.
Permuted(list, p) == [i \in DOMAIN list |-> list[p[i]]]

\* C30: after load every two adjacent questions are in key order, for every
\* result list, and the list is the same whatever the order in which the
\* server sent the same questions.
C30_SortedSameForEveryPermutation ==
  questions /= <<>> =>
    /\ \A i \in 1..(Len(questions) - 1) :
         KeyNotGreater(QuestionById(questions[i]),
                       QuestionById(questions[i + 1]))
    /\ \A p \in Permutations(DOMAIN questionsData) :
         QuestionIdsOf(SortQuestions(Permuted(questionsData, p))) = questions

\* ------------------------------------------- claims: notices and the flag

\* C31: a returned response with a non-empty violations list and
\* auto_disqualified = true leaves the modal showing the disqualification
\* notice (isDisqualified = true), which overrides the ordinary violation
\* shown earlier in the same cycle.
C31_DisqualificationOverridesViolation ==
  [][\A c \in cycles, r \in Responses :
       (Returned(c, r) /\ r.violations /= <<>> /\ r.auto_disqualified)
       => (/\ violationModal'.visible
           /\ violationModal'.isDisqualified
           /\ violationModal'.violationType = "disqualified")]_vars

\* C32: while the screen stays mounted, the latest answer of every edited
\* question is eventually sent by an auto-save call, also when another
\* question is edited before the first one's debounce delay has elapsed.
C32_EveryEditedQuestionSaved ==
  \A q \in {QuestionIds[i] : i \in DOMAIN QuestionIds} :
    (mounted /\ q \in DOMAIN userAnswers)
      ~> (\/ ~mounted
          \/ /\ q \in DOMAIN savedAnswers
             /\ savedAnswers[q] = userAnswers[q].answer)

\* C33: an attempt loaded with time_remaining = 0 is submitted
\* automatically: while the screen stays mounted the auto-submit runs
\* without any user action.
C33_ExpiredAttemptAutoSubmits ==
  (mounted /\ attempt.loaded /\ attempt.time_remaining = 0)
    ~> (~mounted \/ (submitCallCount > 0 /\ lastSubmit.auto))

\* C34: while the screen is mounted the autoSaving indicator is true
\* exactly when a debounce timer is pending or an auto-save call is in
\* flight.
C34_IndicatorTracksSaving ==
  mounted => (autoSaving <=> (saveTimers /= {} \/ savesInFlight > 0))

\* C35: while the screen is mounted isTakingSnapshot is true exactly while
\* at least one capture+upload cycle is in flight: never stuck true after
\* the cycles have ended, never false while one still runs.
C35_BusyFlagTracksCycles ==
  mounted => (isTakingSnapshot <=> cycles /= {})

\* C36: a returned response whose first violation has a type outside the
\* five known ones ends the cycle normally: the error is swallowed, the
\* counters keep the values set from the response, the busy flag is
\* released, and the interval that is live is one whose next tick starts
\* a cycle.
C36_UnknownTypeEndsNormally ==
  [][\A c \in cycles, r \in Responses :
       (/\ Returned(c, r)
        /\ r.violations /= <<>>
        /\ ~GetViolationDetails(Head(r.violations).type).defined)
       => /\ snapshotCount' = snapshotCount + 1
          /\ violationCount' = r.violation_count
          /\ ~isTakingSnapshot'
          /\ c \notin cycles'
          /\ timers' = timers
          /\ snapshotIntervalRef' = snapshotIntervalRef
          /\ \A t \in timers' :
               t.id = snapshotIntervalRef' => EntryGuardPasses(t.env)]_vars

\* ------------------------------------------------ claims: the interval

\* C37: in every state where the app is not in the foreground no snapshot
\* interval is live, also when camera readiness or permission arrives
\* while the app is in the background.
C37_NoIntervalInBackground ==
  appState /= "active" =>
    /\ snapshotIntervalRef = 0
    /\ \A t \in timers : t.kind /= "interval"

\* ------------------------------------------- claims: navigation, no entry

\* C38: navigating away from a question that has no UserAnswer entry leaves
\* the answer map unchanged: no entry is created and every existing entry
\* stays as it was.
C38_LeavingUntouchedQuestion ==
  [][\A i \in 0..(Len(QuestionIds) - 1) :
       (/\ NavigateToQuestion(i)
        /\ QuestionAt(questions, currentQuestionIndex) \notin DOMAIN userAnswers)
       => userAnswers' = userAnswers]_vars

\* C38 witness: the user answered question 1, spent time on question 2
\* without touching it and went back: question 1's entry is the only one.
C38_Witness ==
  /\ mounted
  /\ currentQuestionIndex = 0
  /\ timeEffect.live
  /\ timeEffect.questionId = 1
  /\ timeEffect.questionStartTime > 0
  /\ dwellMs[2] > 0
  /\ DOMAIN userAnswers = {1}

\* The repeating snapshot timers that are live.
LiveIntervals == {t \in timers : t.kind = "interval"}

\* C39: at most one repeating snapshot interval is live at any time, and
\* snapshotIntervalRef is non-null exactly when one is live, in which case
\* it is the handle of that interval.
C39_AtMostOneInterval ==
  /\ Cardinality(LiveIntervals) <= 1
  /\ snapshotIntervalRef /= 0 <=> LiveIntervals /= {}
  /\ \A t \in LiveIntervals : t.id = snapshotIntervalRef

\* C39 witness: the interval was stopped in the background and started
\* again on the return to the foreground; one interval is live.
C39_Witness ==
  /\ mounted
  /\ resumed
  /\ appState = "active"
  /\ snapshotIntervalRef /= 0
  /\ Cardinality(LiveIntervals) = 1

====
